---- MODULE Spec2Model ----
(***************************************************************************)
(* Model of flight_logger.py: the per-aircraft flight ledger               *)
(* (aircraft_logs/<TAIL>/flights.csv), overlap detection, running totals   *)
(* and the GUI handlers that read the ledger.                              *)
(*                                                                         *)
(* Representation.                                                         *)
(*   - A tail-number string is a tuple of one-character strings.           *)
(*   - A date string "YYYY-MM-DD" is the tuple <<Y, M, D>> of its fields,  *)
(*     a time string "HH:MM" the tuple <<H, M>>; a tuple whose fields are  *)
(*     out of range is a string strptime rejects.                          *)
(*   - A datetime is [day |-> proleptic ordinal, min |-> minute of day].   *)
(*   - Hours with 2 decimals are integers counting hundredths of an hour.  *)
(*   - DataFrame.append is the pandas 1.x method the program was written   *)
(*     for.                                                                *)
(***************************************************************************)
EXTENDS Integers, Sequences, FiniteSets, TLC

\* Bound of the model: entries stored over all ledgers.
MaxEntries == 2

\* timedelta(days=1), in minutes.
MinutesPerDay == 1440
\* seconds / 3600.0, in minutes.
MinutesPerHour == 60

-----------------------------------------------------------------------------
(* Inputs *)

BlankTail == <<" ">>
TailN1 == <<"n", "1">>
TailN1Padded == <<"N", "1", " ">>
TailNA == <<"n", "a">>

Day1 == <<2024, 1, 1>>
Day2 == <<2024, 1, 2>>
BadDate == <<2024, 1, 32>>
GoodDates == { Day1, Day2 }

BadTime == <<24, 0>>
GridTimes == { <<0, 0>>, <<12, 0>>, <<23, 30>> }

Request(date_str, tail, takeoff, landing, landings_this) ==
    [date_str |-> date_str, tail |-> tail, takeoff |-> takeoff,
     landing |-> landing, landings_this |-> landings_this]

\* Every date with every pair of the grid's clock times, for one aircraft.
GridRequests ==
    { Request(d, TailN1, k, l, 1) : d \in GoodDates, k \in GridTimes, l \in GridTimes }

\* Intervals that end or start at 00:15, other landing counts, another
\* spelling of the same tail, another aircraft.
MoreRequests ==
    { Request(Day1, TailN1, <<23, 30>>, <<0, 15>>, 2),
      Request(Day1, TailN1, <<0, 15>>, <<12, 0>>, 3),
      Request(Day2, TailN1, <<0, 0>>, <<0, 15>>, 1),
      Request(Day1, TailN1, <<12, 0>>, <<23, 30>>, 2),
      Request(Day1, TailN1Padded, <<0, 15>>, <<12, 0>>, 1),
      Request(Day2, TailN1Padded, <<0, 0>>, <<12, 0>>, 2),
      Request(Day1, TailNA, <<0, 0>>, <<12, 0>>, 1),
      Request(Day1, TailNA, <<0, 0>>, <<23, 30>>, 1),
      Request(Day1, TailNA, <<12, 0>>, <<23, 30>>, 2) }

\* A blank tail, a malformed date, a malformed time.
InvalidRequests ==
    { Request(Day1, BlankTail, <<0, 0>>, <<12, 0>>, 1),
      Request(BadDate, BlankTail, <<0, 0>>, <<12, 0>>, 1),
      Request(BadDate, TailN1, <<0, 0>>, <<12, 0>>, 1),
      Request(Day1, TailN1, BadTime, <<12, 0>>, 1),
      Request(Day1, TailNA, <<0, 0>>, BadTime, 2),
      Request(BadDate, TailN1Padded, BadTime, BadTime, 2) }

Requests == GridRequests \cup MoreRequests \cup InvalidRequests

TailInputs == { r.tail : r \in Requests }

-----------------------------------------------------------------------------
(* Strings *)

RECURSIVE LStrip(_)
LStrip(s) == IF s # <<>> /\ Head(s) = " " THEN LStrip(Tail(s)) ELSE s

RECURSIVE RStrip(_)
RStrip(s) ==
    IF s # <<>> /\ s[Len(s)] = " " THEN RStrip(SubSeq(s, 1, Len(s) - 1)) ELSE s

\* str.strip()
Strip(s) == RStrip(LStrip(s))

UpperChar(c) ==
    CASE c = "n" -> "N"
      [] c = "a" -> "A"
      [] OTHER -> c

\* str.upper()
Upper(s) == [i \in DOMAIN s |-> UpperChar(s[i])]

\* Mutant: the tail number is trimmed but keeps its letter case.
NormalizeTail_NoUpper(tail) == Strip(tail)

\* tail_number.strip().upper()
NormalizeTail(tail) == Upper(Strip(tail))

\* The ledgers the inputs can name.
Tails == { NormalizeTail(t) : t \in TailInputs } \ { <<>> }

-----------------------------------------------------------------------------
(* Dates and times *)

IsLeap(y) == (y % 4 = 0) /\ ((y % 100 # 0) \/ (y % 400 = 0))

DaysInMonth(y, m) ==
    CASE m \in {1, 3, 5, 7, 8, 10, 12} -> 31
      [] m \in {4, 6, 9, 11} -> 30
      [] OTHER -> IF IsLeap(y) THEN 29 ELSE 28

RECURSIVE DaysBeforeMonth(_, _)
DaysBeforeMonth(y, m) ==
    IF m = 1 THEN 0 ELSE DaysBeforeMonth(y, m - 1) + DaysInMonth(y, m - 1)

\* date.toordinal()
Ordinal(d) ==
    LET y == d[1] - 1
    IN  365 * y + (y \div 4) - (y \div 100) + (y \div 400)
        + DaysBeforeMonth(d[1], d[2]) + d[3]

ValidDate(d) ==
    /\ d[1] \in 1..9999
    /\ d[2] \in 1..12
    /\ d[3] \in 1..DaysInMonth(d[1], d[2])

ValidTime(t) == t[1] \in 0..23 /\ t[2] \in 0..59

\* strptime raises ValueError unless this holds.
CanParse(date_str, time_str) == ValidDate(date_str) /\ ValidTime(time_str)

parse_datetime(date_str, time_str) ==
    [day |-> Ordinal(date_str), min |-> time_str[1] * 60 + time_str[2]]

\* datetime comparison a < b
Before(a, b) == a.day < b.day \/ (a.day = b.day /\ a.min < b.min)

\* dt + timedelta(days=1)
AddDay(dt) == [dt EXCEPT !.day = @ + 1]

\* (b - a).total_seconds() / 60
MinutesBetween(a, b) == (b.day - a.day) * MinutesPerDay + (b.min - a.min)

\* round(num / den, 2) in hundredths, ties to even (num >= 0, den > 0)
Round2(num, den) ==
    LET q == (100 * num) \div den
        r == (100 * num) % den
    IN  IF 2 * r < den THEN q
        ELSE IF 2 * r > den THEN q + 1
        ELSE IF q % 2 = 0 THEN q ELSE q + 1

\* Mutant: a landing at the takeoff time counts as a landing after midnight.
DurationEnd_NotStrict(date_str, takeoff, landing) ==
    LET t1 == parse_datetime(date_str, takeoff)
        t2 == parse_datetime(date_str, landing)
    IN  IF ~Before(t1, t2) THEN AddDay(t2) ELSE t2

\* Mutant: a landing after midnight stays on the takeoff date.
DurationEnd_NoRollover(date_str, takeoff, landing) ==
    parse_datetime(date_str, landing)

DurationEnd(date_str, takeoff, landing) ==
    LET t1 == parse_datetime(date_str, takeoff)
        t2 == parse_datetime(date_str, landing)
    IN  IF Before(t2, t1) THEN AddDay(t2) ELSE t2

calc_duration_hours(date_str, takeoff, landing) ==
    LET t1 == parse_datetime(date_str, takeoff)
        t2 == DurationEnd(date_str, takeoff, landing)
    IN  Round2(MinutesBetween(t1, t2), MinutesPerHour)

\* calc_duration_hours raises
DurationRaises(date_str, takeoff, landing) ==
    ~CanParse(date_str, takeoff) \/ ~CanParse(date_str, landing)

-----------------------------------------------------------------------------
(* The CSV store: one flights.csv per normalized tail number *)

VARIABLES
    files,      \* files[t]: aircraft_logs/<t>/flights.csv, its status and rows
                \*   status "missing": no file; "ok": a file read_csv reads;
                \*   "locked": the same, but open(path, "w") raises;
                \*   "corrupt": a file read_csv raises on.
                \*   A row read_csv pads with NaN lacks the padded fields.
    last,       \* the handler that ran last and the outcome it reported
    pc,         \* pc[p]: where process p stands in add_flight_record
    req,        \* req[p]: the arguments of p's call
    local_df,   \* local_df[p]: the DataFrame df that p read at line 128
    ret,        \* ret[p]: what p's last call returned
    calls,      \* calls[p]: the calls p has started
    serial,     \* the store had every call run alone, in the order of the starts
    touched     \* touched[p]: the ledgers p's calls have named

procvars == <<pc, req, local_df, ret, calls, serial, touched>>

vars == <<files, last, pc, req, local_df, ret, calls, serial, touched>>

\* Cell values pandas.read_csv turns into NaN (those a tail number can spell).
NaValues == { <<>>, <<"N", "A">>, <<"N", "U", "L", "L">> }

\* NaN, which DataFrame.to_csv renders as the empty field.
NaN == <<>>

\* pd.read_csv on one data row: the date and time cells stay strings, the
\* numeric cells parse back to the numbers written, a Tail Number cell
\* that spells an NA value becomes NaN.
read_csv_row(r) == [r EXCEPT !.TailNumber = IF @ \in NaValues THEN NaN ELSE @]

read_csv(rows) == [i \in 1..Len(rows) |-> read_csv_row(rows[i])]

\* df.to_csv(path, index=False)
to_csv(df) == [status |-> "ok", rows |-> df]

\* Mutant: one file for every aircraft.
flights_csv_path_Shared(tail_number) == NormalizeTail(TailN1)

flights_csv_path(tail_number) == NormalizeTail(tail_number)

read_flights_df(fs, tail_number) ==
    LET f == fs[flights_csv_path(tail_number)]
    IN  IF f.status \in {"ok", "locked"} THEN read_csv(f.rows) ELSE <<>>

\* Mutant: the file is opened for appending and only the new row is written.
write_flights_df_Append(fs, tail_number, df) ==
    [fs EXCEPT ![flights_csv_path(tail_number)] =
        to_csv(Append(@.rows, df[Len(df)]))]

write_flights_df(fs, tail_number, df) ==
    [fs EXCEPT ![flights_csv_path(tail_number)] = to_csv(df)]

-----------------------------------------------------------------------------
(* Overlap detection *)

NewStart(date_str, takeoff) == parse_datetime(date_str, takeoff)

NewEnd(date_str, takeoff, landing) ==
    LET new_start == parse_datetime(date_str, takeoff)
        new_end == parse_datetime(date_str, landing)
    IN  IF Before(new_end, new_start) THEN AddDay(new_end) ELSE new_end

\* The cells of a row that parse_datetime is given.
TimeCells == {"Date", "TakeoffTime", "LandingTime"}

\* The try block of the scan raises on this row: strptime rejects a cell, or
\* the cell is NaN, which has no strip().
RowRaises(row) ==
    \/ ~(TimeCells \subseteq DOMAIN row)
    \/ ~CanParse(row.Date, row.TakeoffTime)
    \/ ~CanParse(row.Date, row.LandingTime)

ExistingStart(row) == parse_datetime(row.Date, row.TakeoffTime)

\* Mutant: stored entries are compared without the rollover.
ExistingEnd_NoRollover(row) == parse_datetime(row.Date, row.LandingTime)

ExistingEnd(row) ==
    LET existing_start == parse_datetime(row.Date, row.TakeoffTime)
        existing_end == parse_datetime(row.Date, row.LandingTime)
    IN  IF Before(existing_end, existing_start) THEN AddDay(existing_end)
        ELSE existing_end

\* Mutant: the comparison is not strict.
Intersects_Closed(new_start, new_end, existing_start, existing_end) ==
    ~Before(existing_end, new_start) /\ ~Before(new_end, existing_start)

Intersects(new_start, new_end, existing_start, existing_end) ==
    Before(new_start, existing_end) /\ Before(existing_start, new_end)

\* Mutant: the scan looks only at the entries stored under the same date.
detect_overlap_SameDate(fs, tail_number, date_str, takeoff, landing) ==
    LET df == read_flights_df(fs, tail_number)
    IN  IF df = <<>> THEN FALSE
        ELSE \E i \in 1..Len(df) :
                /\ ~RowRaises(df[i])
                /\ df[i].Date = date_str
                /\ Intersects(NewStart(date_str, takeoff),
                              NewEnd(date_str, takeoff, landing),
                              ExistingStart(df[i]), ExistingEnd(df[i]))

\* Mutant: the scan ends at the first row that does not parse.
detect_overlap_StopsAtBadRow(fs, tail_number, date_str, takeoff, landing) ==
    LET df == read_flights_df(fs, tail_number)
        new_start == NewStart(date_str, takeoff)
        new_end == NewEnd(date_str, takeoff, landing)
    IN  IF df = <<>> THEN FALSE
        ELSE \E i \in 1..Len(df) :
                /\ \A j \in 1..i : ~RowRaises(df[j])
                /\ Intersects(new_start, new_end,
                              ExistingStart(df[i]), ExistingEnd(df[i]))

detect_overlap(fs, tail_number, date_str, takeoff, landing) ==
    LET df == read_flights_df(fs, tail_number)
        new_start == NewStart(date_str, takeoff)
        new_end == NewEnd(date_str, takeoff, landing)
    IN  IF df = <<>> THEN FALSE
        ELSE \E i \in 1..Len(df) :
                /\ ~RowRaises(df[i])
                /\ Intersects(new_start, new_end,
                              ExistingStart(df[i]), ExistingEnd(df[i]))

-----------------------------------------------------------------------------
(* add_flight_record *)

MsgTailRequired == "Tail number required."
MsgParseError == "Date/time parse error"
MsgOverlap == "Overlap detected with existing flight."
MsgAdded == "Flight added successfully."

\* Exceptions that leave add_flight_record: int(nan) at line 135, and
\* open(path, "w") inside to_csv at line 152.
ExcValueError == "ValueError"
ExcOSError == "OSError"

\* Mutant: the df.empty branch is missing and iloc[-1] raises on an empty
\* DataFrame.
PrevRaises_NoEmptyCase(df) ==
    df = <<>> \/ "TotalLandingsAfterFlight" \notin DOMAIN df[Len(df)]

\* Lines 133-135 raise: the last row's Total Landings After Flight is NaN.
PrevRaises(df) ==
    df # <<>> /\ "TotalLandingsAfterFlight" \notin DOMAIN df[Len(df)]

\* Mutant: the OSError of to_csv is caught and dropped.
WriteRaises_Swallowed(fs, tail_number) == FALSE

\* write_flights_df raises: the file cannot be opened for writing.
WriteRaises(fs, tail_number) == fs[flights_csv_path(tail_number)].status = "locked"

PrevHours(df) == IF df = <<>> THEN 0 ELSE df[Len(df)].TotalHoursAfterFlight

\* Mutant: the number of rows stands in for the landings total.
PrevLandings_RowCount(df) == Len(df)

PrevLandings(df) == IF df = <<>> THEN 0 ELSE df[Len(df)].TotalLandingsAfterFlight

\* Mutant: the row carries the totals as they were before the flight.
NewRow_StaleTotals(df, date_str, tail, takeoff, landing, landings_this) ==
    [Date |-> date_str,
     TailNumber |-> tail,
     TakeoffTime |-> takeoff,
     LandingTime |-> landing,
     FlightDuration |-> calc_duration_hours(date_str, takeoff, landing),
     LandingsThisFlight |-> landings_this,
     TotalHoursAfterFlight |-> PrevHours(df),
     TotalLandingsAfterFlight |-> PrevLandings(df)]

NewRow(df, date_str, tail, takeoff, landing, landings_this) ==
    LET duration == calc_duration_hours(date_str, takeoff, landing)
    IN  [Date |-> date_str,
         TailNumber |-> tail,
         TakeoffTime |-> takeoff,
         LandingTime |-> landing,
         FlightDuration |-> duration,
         LandingsThisFlight |-> landings_this,
         TotalHoursAfterFlight |-> Round2(PrevHours(df) + duration, 100),
         TotalLandingsAfterFlight |-> PrevLandings(df) + landings_this]

\* Mutant: the date and times are parsed before the tail number is looked at.
Outcome_ParseFirst(fs, date_str, tail_in, takeoff, landing) ==
    LET tail == NormalizeTail(tail_in)
    IN  IF DurationRaises(date_str, takeoff, landing) THEN MsgParseError
        ELSE IF tail = <<>> THEN MsgTailRequired
        ELSE IF detect_overlap(fs, tail, date_str, takeoff, landing) THEN MsgOverlap
        ELSE IF PrevRaises(read_flights_df(fs, tail)) THEN ExcValueError
        ELSE IF WriteRaises(fs, tail) THEN ExcOSError
        ELSE MsgAdded

\* The message add_flight_record returns, or the exception that leaves it,
\* when it runs on store fs.
Outcome(fs, date_str, tail_in, takeoff, landing) ==
    LET tail == NormalizeTail(tail_in)
    IN  IF tail = <<>> THEN MsgTailRequired
        ELSE IF DurationRaises(date_str, takeoff, landing) THEN MsgParseError
        ELSE IF detect_overlap(fs, tail, date_str, takeoff, landing) THEN MsgOverlap
        ELSE IF PrevRaises(read_flights_df(fs, tail)) THEN ExcValueError
        ELSE IF WriteRaises(fs, tail) THEN ExcOSError
        ELSE MsgAdded

\* Mutant: the row is appended although an overlap was reported.
StoredOn_WritesOnOverlap(msg, fs, date_str, tail_in, takeoff, landing, landings_this) ==
    LET tail == NormalizeTail(tail_in)
        df == read_flights_df(fs, tail)
    IN  IF msg \in {MsgAdded, MsgOverlap}
        THEN write_flights_df(fs, tail,
                 Append(df, NewRow(df, date_str, tail, takeoff, landing, landings_this)))
        ELSE fs

\* The store add_flight_record leaves when it returns msg on store fs.
StoredOn(msg, fs, date_str, tail_in, takeoff, landing, landings_this) ==
    LET tail == NormalizeTail(tail_in)
        df == read_flights_df(fs, tail)
    IN  IF msg = MsgAdded
        THEN write_flights_df(fs, tail,
                 Append(df, NewRow(df, date_str, tail, takeoff, landing, landings_this)))
        ELSE fs

Stored(fs, r) ==
    StoredOn(Outcome(fs, r.date_str, r.tail, r.takeoff, r.landing), fs,
             r.date_str, r.tail, r.takeoff, r.landing, r.landings_this)

add_flight_record(date_str, tail, takeoff, landing, landings_this) ==
    LET msg == Outcome(files, date_str, tail, takeoff, landing)
    IN  /\ files' = StoredOn(msg, files, date_str, tail, takeoff, landing, landings_this)
        /\ last' = [op |-> "add", ok |-> msg = MsgAdded, msg |-> msg]
        /\ UNCHANGED procvars

Entries(fs, t) == Len(fs[t].rows)

RECURSIVE SumEntries(_, _)
SumEntries(fs, S) ==
    IF S = {} THEN 0
    ELSE LET t == CHOOSE x \in S : TRUE
         IN  Entries(fs, t) + SumEntries(fs, S \ {t})

TotalEntries(fs) == SumEntries(fs, Tails)

AddFlight ==
    /\ TotalEntries(files) < MaxEntries
    /\ \E r \in Requests :
           add_flight_record(r.date_str, r.tail, r.takeoff, r.landing, r.landings_this)

\* Flights of one aircraft between the first and the last minute of a day.
ClockTimes == { <<0, 0>>, <<0, 1>>, <<12, 0>>, <<23, 59>> }

ClockRequests ==
    { Request(d, TailN1, k, l, 1) : d \in GoodDates, k \in ClockTimes, l \in ClockTimes }

AddFlightClock ==
    /\ TotalEntries(files) < MaxEntries
    /\ \E r \in ClockRequests :
           add_flight_record(r.date_str, r.tail, r.takeoff, r.landing, r.landings_this)

-----------------------------------------------------------------------------
(* GUI handlers that read the ledger *)

Shown(op, ok, msg) == [op |-> op, ok |-> ok, msg |-> msg]

\* The handlers' common prologue: the dialog that ends the handler early.
NoLedgerDialog(fs, tail_var) ==
    LET tail == NormalizeTail(tail_var)
    IN  IF tail = <<>> THEN "No Tail Number"
        ELSE IF read_flights_df(fs, tail) = <<>> THEN "No Data"
        ELSE ""

OnViewHistory ==
    \E tail_var \in TailInputs :
        LET early == NoLedgerDialog(files, tail_var)
        IN  /\ last' = IF early # "" THEN Shown("view", FALSE, early)
                       ELSE Shown("view", TRUE, "History")
            /\ UNCHANGED <<files, procvars>>

\* The chart is built from a DataFrame held in memory; any exception of the
\* try block ends in the "Plot Error" dialog.
OnPlotHours ==
    \E tail_var \in TailInputs, raised \in BOOLEAN :
        LET early == NoLedgerDialog(files, tail_var)
        IN  /\ last' = IF early # "" THEN Shown("plot", FALSE, early)
                       ELSE IF raised THEN Shown("plot", FALSE, "Plot Error")
                       ELSE Shown("plot", TRUE, "Monthly Flight Hours")
            /\ UNCHANGED <<files, procvars>>

\* out_path is the file chosen in the save dialog ("" when cancelled); the
\* export writes that file, not flights.csv.
OnExport ==
    \E tail_var \in TailInputs, out_path \in {"", "out.csv", "out.xlsx"},
       raised \in BOOLEAN :
        LET early == NoLedgerDialog(files, tail_var)
        IN  /\ last' = IF early # "" THEN Shown("export", FALSE, early)
                       ELSE IF out_path = "" THEN Shown("export", FALSE, "")
                       ELSE IF raised THEN Shown("export", FALSE, "Export failed")
                       ELSE Shown("export", TRUE, "Exported")
            /\ UNCHANGED <<files, procvars>>

-----------------------------------------------------------------------------
(* The Add Flight button: the form fields are text *)

Digits == { "0", "1", "2" }

DigitValue(c) ==
    CASE c = "0" -> 0
      [] c = "1" -> 1
      [] c = "2" -> 2

RECURSIVE DigitsValue(_)
DigitsValue(s) ==
    IF s = <<>> THEN 0
    ELSE 10 * DigitsValue(SubSeq(s, 1, Len(s) - 1)) + DigitValue(s[Len(s)])

\* The text without its sign.
Unsigned(s) == IF s # <<>> /\ s[1] \in {"-", "+"} THEN Tail(s) ELSE s

\* int(landings) raises ValueError: the text is not an optional sign
\* followed by digits.
IntRaises(s) ==
    LET body == Unsigned(Strip(s))
    IN  body = <<>> \/ \E i \in 1..Len(body) : body[i] \notin Digits

\* int(landings)
IntOf(s) ==
    LET t == Strip(s)
    IN  IF t[1] = "-" THEN 0 - DigitsValue(Unsigned(t)) ELSE DigitsValue(Unsigned(t))

\* What the landings field can hold: nothing, a word, and numbers.
LandingsTexts ==
    { <<>>, <<"x">>, <<"0">>, <<"-", "1">>, <<"2">>, <<" ", "1", "0">> }

Form(date, tail, takeoff, landing, landings) ==
    [date |-> date, tail |-> tail, takeoff |-> takeoff, landing |-> landing,
     landings |-> landings]

\* The forms submitted: flights of one aircraft with every landings text, a
\* form without a tail number and one without a date.
Forms ==
    { Form(d, TailN1Padded, k, <<12, 0>>, n) :
          d \in GoodDates, k \in { <<0, 0>>, <<0, 15>> }, n \in LandingsTexts }
      \cup { Form(Day1, TailN1Padded, <<12, 0>>, <<23, 30>>, n) : n \in LandingsTexts }
      \cup { Form(Day1, BlankTail, <<0, 0>>, <<12, 0>>, <<"2">>),
             Form(<<>>, TailN1, <<0, 0>>, <<12, 0>>, <<"2">>),
             Form(BadDate, TailN1, <<0, 0>>, <<12, 0>>, <<"2">>) }

\* _on_add_flight: every field is stripped, an empty field or a landings
\* text that int() rejects ends the handler with an error dialog, otherwise
\* add_flight_record runs with int(landings).
OnAddFlight ==
    /\ TotalEntries(files) < MaxEntries
    /\ \E f \in Forms :
          LET tail == Strip(f.tail)
              landings == Strip(f.landings)
          IN  IF <<>> \in { f.date, tail, f.takeoff, f.landing, landings }
              THEN /\ last' = Shown("add", FALSE, "Missing fields")
                   /\ UNCHANGED <<files, procvars>>
              ELSE IF IntRaises(landings)
              THEN /\ last' = Shown("add", FALSE, "Invalid input")
                   /\ UNCHANGED <<files, procvars>>
              ELSE add_flight_record(f.date, tail, f.takeoff, f.landing,
                                     IntOf(landings))

-----------------------------------------------------------------------------
(* add_flight_record run by several processes, one file access per step *)

\* Bound of the model: calls each process makes.
MaxCalls == 1

Procs == { 1, 2 }

ConcRequests ==
    { Request(Day1, TailN1, <<0, 0>>, <<12, 0>>, 1),
      Request(Day1, TailN1, <<0, 0>>, <<23, 30>>, 2),
      Request(Day1, TailN1Padded, <<12, 0>>, <<23, 30>>, 1),
      Request(Day1, TailNA, <<0, 0>>, <<12, 0>>, 2),
      Request(Day1, BlankTail, <<0, 0>>, <<12, 0>>, 1),
      Request(Day1, TailNA, BadTime, <<12, 0>>, 1) }

Returned(ok, msg) == [ok |-> ok, msg |-> msg]

\* open(path, "w"): the file is empty until the rows are flushed, and
\* read_csv raises on an empty file.
Truncated == [status |-> "corrupt", rows |-> <<>>]

\* Lines 114-122: the call starts; a blank tail or a date or time that does
\* not parse ends it.
Call(p) ==
    /\ pc[p] = "idle"
    /\ calls[p] < MaxCalls
    /\ \E r \in ConcRequests :
          LET tail == NormalizeTail(r.tail)
              early == IF tail = <<>> THEN MsgTailRequired
                       ELSE IF DurationRaises(r.date_str, r.takeoff, r.landing)
                       THEN MsgParseError
                       ELSE ""
          IN  /\ req' = [req EXCEPT ![p] = r]
              /\ calls' = [calls EXCEPT ![p] = @ + 1]
              /\ serial' = Stored(serial, r)
              /\ touched' = [touched EXCEPT
                                ![p] = IF tail = <<>> THEN @ ELSE @ \cup {tail}]
              /\ IF early # ""
                 THEN /\ ret' = [ret EXCEPT ![p] = Returned(FALSE, early)]
                      /\ pc' = pc
                 ELSE /\ ret' = ret
                      /\ pc' = [pc EXCEPT ![p] = "overlap"]
    /\ UNCHANGED <<files, last, local_df>>

\* Line 125: detect_overlap reads the file.
CheckOverlap(p) ==
    /\ pc[p] = "overlap"
    /\ IF detect_overlap(files, NormalizeTail(req[p].tail), req[p].date_str,
                         req[p].takeoff, req[p].landing)
       THEN /\ ret' = [ret EXCEPT ![p] = Returned(FALSE, MsgOverlap)]
            /\ pc' = [pc EXCEPT ![p] = "idle"]
       ELSE /\ ret' = ret
            /\ pc' = [pc EXCEPT ![p] = "read"]
    /\ UNCHANGED <<files, last, req, local_df, calls, serial, touched>>

\* Line 128: the file is read again.
ReadLedger(p) ==
    /\ pc[p] = "read"
    /\ local_df' = [local_df EXCEPT ![p] = read_flights_df(files, NormalizeTail(req[p].tail))]
    /\ pc' = [pc EXCEPT ![p] = "write"]
    /\ UNCHANGED <<files, last, req, ret, calls, serial, touched>>

\* Lines 129-152: the row is built from the DataFrame read and to_csv opens
\* the file for writing.
OpenForWrite(p) ==
    /\ pc[p] = "write"
    /\ files' = [files EXCEPT ![flights_csv_path(req[p].tail)] = Truncated]
    /\ pc' = [pc EXCEPT ![p] = "flush"]
    /\ UNCHANGED <<last, req, local_df, ret, calls, serial, touched>>

\* Lines 152-153: the whole DataFrame reaches the file and the call returns.
FlushAndReturn(p) ==
    /\ pc[p] = "flush"
    /\ files' = write_flights_df(files, NormalizeTail(req[p].tail),
                    Append(local_df[p], NewRow(local_df[p], req[p].date_str,
                                         NormalizeTail(req[p].tail), req[p].takeoff,
                                         req[p].landing, req[p].landings_this)))
    /\ ret' = [ret EXCEPT ![p] = Returned(TRUE, MsgAdded)]
    /\ pc' = [pc EXCEPT ![p] = "idle"]
    /\ UNCHANGED <<last, req, local_df, calls, serial, touched>>

-----------------------------------------------------------------------------
(* The store between runs: damage to flights.csv that add_flight_record    *)
(* finds at its next call                                                  *)

StoreRequests ==
    { Request(Day1, TailN1, <<0, 0>>, <<12, 0>>, 1),
      Request(Day1, TailN1Padded, <<12, 0>>, <<23, 30>>, 2),
      Request(Day1, TailN1, <<0, 15>>, <<12, 0>>, 3),
      Request(Day2, TailNA, <<0, 0>>, <<12, 0>>, 1),
      Request(BadDate, BlankTail, <<0, 0>>, <<12, 0>>, 1),
      Request(Day1, TailN1, BadTime, <<12, 0>>, 1) }

\* A call on a full store runs when it adds nothing.
AddFlightStore ==
    \E r \in StoreRequests :
        /\ \/ TotalEntries(files) < MaxEntries
           \/ Outcome(files, r.date_str, r.tail, r.takeoff, r.landing) # MsgAdded
        /\ add_flight_record(r.date_str, r.tail, r.takeoff, r.landing, r.landings_this)

\* Nothing the program reports: the step is not one of its handlers.
Outside == [op |-> "outside", ok |-> FALSE, msg |-> ""]

\* The columns of flights.csv, in the order to_csv writes them.
Columns ==
    << "Date", "TailNumber", "TakeoffTime", "LandingTime", "FlightDuration",
       "LandingsThisFlight", "TotalHoursAfterFlight", "TotalLandingsAfterFlight" >>

\* The cells of the last line that reached the disk when a write stopped
\* short: none (the file is empty), or the line up to a cell boundary.
CellsKept == { 0, 3, 7 }

\* A line cut after its first kept cells, as read_csv returns it: the
\* missing trailing cells are NaN.
CutRow(row, kept) == [c \in { Columns[i] : i \in 1..kept } |-> row[c]]

\* The process dies inside df.to_csv(path) of a record it had accepted.
CrashInWrite ==
    /\ TotalEntries(files) < MaxEntries
    /\ \E r \in StoreRequests, kept \in CellsKept :
          LET tail == NormalizeTail(r.tail)
              df == read_flights_df(files, tail)
              new_row == NewRow(df, r.date_str, tail, r.takeoff, r.landing,
                                r.landings_this)
          IN  /\ Outcome(files, r.date_str, r.tail, r.takeoff, r.landing) = MsgAdded
              /\ files' = [files EXCEPT ![flights_csv_path(tail)] =
                              IF kept = 0 THEN Truncated
                              ELSE to_csv(Append(df, CutRow(new_row, kept)))]
    /\ last' = Outside
    /\ UNCHANGED procvars

\* The file is overwritten by something that is not a CSV table: read_csv
\* raises and read_flights_df takes the except branch.
Garble ==
    /\ \E t \in Tails :
          /\ files[t].status \in {"ok", "locked"}
          /\ files' = [files EXCEPT ![t] = [status |-> "corrupt", rows |-> <<>>]]
    /\ last' = Outside
    /\ UNCHANGED procvars

\* The file loses its write permission: open(path, "w") raises OSError.
Lock ==
    /\ \E t \in Tails :
          /\ files[t].status = "ok"
          /\ files' = [files EXCEPT ![t].status = "locked"]
    /\ last' = Outside
    /\ UNCHANGED procvars

\* The file is saved by an editor that rewrites one row's Date cell in a
\* form strptime rejects.
EditDate ==
    /\ \E t \in Tails : \E i \in 1..Len(files[t].rows) :
          /\ files[t].status = "ok"
          /\ files[t].rows[i].Date # BadDate
          /\ files' = [files EXCEPT ![t].rows[i].Date = BadDate]
    /\ last' = Outside
    /\ UNCHANGED procvars

-----------------------------------------------------------------------------
(* Specifications *)

NoRequest == Request(<<>>, <<>>, <<>>, <<>>, 0)

Init ==
    /\ files = [t \in Tails |-> [status |-> "missing", rows |-> <<>>]]
    /\ last = [op |-> "none", ok |-> FALSE, msg |-> ""]
    /\ pc = [p \in Procs |-> "idle"]
    /\ req = [p \in Procs |-> NoRequest]
    /\ local_df = [p \in Procs |-> <<>>]
    /\ ret = [p \in Procs |-> Returned(FALSE, "")]
    /\ calls = [p \in Procs |-> 0]
    /\ serial = files
    /\ touched = [p \in Procs |-> {}]

\* Sequences of add_flight_record calls.
Next == AddFlight

Spec == Init /\ [][Next]_vars

\* The GUI session: every handler of a button.
NextGui == AddFlight \/ OnViewHistory \/ OnPlotHours \/ OnExport

SpecGui == Init /\ [][NextGui]_vars

\* Processes that call add_flight_record with no lock between them.
NextConc ==
    \E p \in Procs :
        \/ Call(p)
        \/ CheckOverlap(p)
        \/ ReadLedger(p)
        \/ OpenForWrite(p)
        \/ FlushAndReturn(p)

SpecConc == Init /\ [][NextConc]_vars

\* Calls of add_flight_record with takeoffs and landings at the ends of a day.
NextClock == AddFlightClock

SpecClock == Init /\ [][NextClock]_vars

\* The Add Flight form, submitted again and again.
NextForm == OnAddFlight

SpecForm == Init /\ [][NextForm]_vars

\* Calls of add_flight_record on a store that is damaged between them.
NextStore == AddFlightStore \/ CrashInWrite \/ Garble \/ Lock \/ EditDate

SpecStore == Init /\ [][NextStore]_vars

-----------------------------------------------------------------------------
(* Vocabulary of the properties: intervals as the specification states     *)
(* them, in minutes on one time line, independent of the operators above.  *)

\* The stored entries of aircraft t, as the file holds them.
Ledger(t) == files[t].rows

\* The entries of aircraft t as a load returns them.
Loaded(fs, t) == read_flights_df(fs, t)

InstantOf(date_str, time_str) ==
    Ordinal(date_str) * MinutesPerDay + time_str[1] * MinutesPerHour + time_str[2]

StartOf(date_str, takeoff) == InstantOf(date_str, takeoff)

\* 24 hours are added to the landing instant iff it is strictly earlier.
EndOf(date_str, takeoff, landing) ==
    IF InstantOf(date_str, landing) < InstantOf(date_str, takeoff)
    THEN InstantOf(date_str, landing) + MinutesPerDay
    ELSE InstantOf(date_str, landing)

RowStart(row) == StartOf(row.Date, row.TakeoffTime)
RowEnd(row) == EndOf(row.Date, row.TakeoffTime, row.LandingTime)

\* a.start < b.end AND a.end > b.start
Overlapping(aStart, aEnd, bStart, bEnd) == aStart < bEnd /\ aEnd > bStart

WellFormed(r) ==
    /\ NormalizeTail(r.tail) # <<>>
    /\ CanParse(r.date_str, r.takeoff)
    /\ CanParse(r.date_str, r.landing)

\* The requests with a tail number, a date and times that parse.
WellFormedRequests == { r \in Requests : WellFormed(r) }

OutcomeOf(r) == Outcome(files, r.date_str, r.tail, r.takeoff, r.landing)

\* Some stored entry of r's aircraft overlaps the interval r asks for.
OverlapsStored(r) ==
    LET rows == Ledger(NormalizeTail(r.tail))
        s == StartOf(r.date_str, r.takeoff)
        e == EndOf(r.date_str, r.takeoff, r.landing)
    IN  \E i \in 1..Len(rows) : Overlapping(s, e, RowStart(rows[i]), RowEnd(rows[i]))

ToInstant(dt) == dt.day * MinutesPerDay + dt.min

-----------------------------------------------------------------------------
(* C1 *)

\* C1: after any sequence of add_flight_record calls, accepted or rejected,
\* no two entries stored in one aircraft's ledger have overlapping intervals,
\* each interval being rebuilt from the stored date, takeoff and landing with
\* the midnight rollover.
C1_NoOverlapStored ==
    \A t \in Tails : \A i, j \in 1..Len(Ledger(t)) :
        i < j => ~Overlapping(RowStart(Ledger(t)[i]), RowEnd(Ledger(t)[i]),
                              RowStart(Ledger(t)[j]), RowEnd(Ledger(t)[j]))

\* Two entries stored for one aircraft, the first of them landing after
\* midnight, the second on the next calendar date.
C1_Witness ==
    \E t \in Tails :
        /\ Len(Ledger(t)) = 2
        /\ Ledger(t)[1].Date = Day1
        /\ RowEnd(Ledger(t)[1]) > InstantOf(Day2, <<0, 0>>)
        /\ Ledger(t)[2].Date = Day2

-----------------------------------------------------------------------------
(* C2 *)

RECURSIVE SumDurations(_, _)
SumDurations(rows, n) ==
    IF n = 0 THEN 0 ELSE SumDurations(rows, n - 1) + rows[n].FlightDuration

RECURSIVE SumLandings(_, _)
SumLandings(rows, n) ==
    IF n = 0 THEN 0 ELSE SumLandings(rows, n - 1) + rows[n].LandingsThisFlight

PrevTotalHours(rows, i) == IF i = 1 THEN 0 ELSE rows[i - 1].TotalHoursAfterFlight
PrevTotalLandings(rows, i) == IF i = 1 THEN 0 ELSE rows[i - 1].TotalLandingsAfterFlight

\* C2: in every ledger each entry's total hours are the previous entry's total
\* plus its own duration (hundredths of an hour, 0 before the first entry) and
\* its total landings the previous total plus its own landings; so the last
\* entry carries the sum of all durations and the sum of all landing counts.
C2_RunningTotals ==
    \A t \in Tails :
        /\ \A i \in 1..Len(Ledger(t)) :
              /\ Ledger(t)[i].TotalHoursAfterFlight =
                    PrevTotalHours(Ledger(t), i) + Ledger(t)[i].FlightDuration
              /\ Ledger(t)[i].TotalLandingsAfterFlight =
                    PrevTotalLandings(Ledger(t), i) + Ledger(t)[i].LandingsThisFlight
        /\ Len(Ledger(t)) > 0 =>
              /\ Ledger(t)[Len(Ledger(t))].TotalHoursAfterFlight =
                    SumDurations(Ledger(t), Len(Ledger(t)))
              /\ Ledger(t)[Len(Ledger(t))].TotalLandingsAfterFlight =
                    SumLandings(Ledger(t), Len(Ledger(t)))

\* Two entries with different landing counts and non-zero durations.
C2_Witness ==
    \E t \in Tails :
        /\ Len(Ledger(t)) = 2
        /\ Ledger(t)[1].LandingsThisFlight # Ledger(t)[2].LandingsThisFlight
        /\ Ledger(t)[1].FlightDuration > 0
        /\ Ledger(t)[2].FlightDuration > 0
        /\ Ledger(t)[2].TotalLandingsAfterFlight = 5

-----------------------------------------------------------------------------
(* C3 *)

\* C3: a rejected add_flight_record call (blank tail, parse failure or
\* overlap) leaves every ledger, as loaded after the call, exactly the ledger
\* loaded before it.
C3_RejectedLeavesLedger ==
    [][(last'.op = "add" /\ ~last'.ok) =>
          \A t \in Tails : Loaded(files', t) = Loaded(files, t)]_vars

\* A call was just rejected for overlap on a ledger that holds an entry.
C3_Witness ==
    /\ last.op = "add"
    /\ last.msg = MsgOverlap
    /\ \E t \in Tails : Len(Ledger(t)) = 1

-----------------------------------------------------------------------------
(* C4 *)

StoredBy(r) == Stored(files, r)

\* C4: on every reachable store and for every well-formed request, the call
\* is rejected with the overlap message exactly when some stored entry of the
\* same aircraft satisfies new.start < existing.end AND new.end >
\* existing.start, and then nothing is written; on an empty ledger, or when
\* no entry satisfies the test, the overlap check returns false.
C4_OverlapRejectedExactly ==
    \A r \in WellFormedRequests :
        LET rejected == OutcomeOf(r) = MsgOverlap
        IN  /\ rejected <=> OverlapsStored(r)
            /\ rejected => StoredBy(r) = files

\* An entry that landed after midnight is stored, a request on the next
\* calendar date falls strictly inside it and one strictly inside an entry of
\* the same date exists too, and the call that just ran was rejected for
\* overlap.
C4_Witness ==
    /\ last.op = "add"
    /\ last.msg = MsgOverlap
    /\ \E t \in Tails : \E i \in 1..Len(Ledger(t)) :
          /\ Ledger(t)[i].Date = Day1
          /\ RowEnd(Ledger(t)[i]) > InstantOf(Day2, <<0, 15>>)
          /\ \E r \in Requests :
                /\ r \in WellFormedRequests
                /\ NormalizeTail(r.tail) = t /\ r.date_str = Day2
                /\ RowStart(Ledger(t)[i]) < StartOf(r.date_str, r.takeoff)
                /\ EndOf(r.date_str, r.takeoff, r.landing) < RowEnd(Ledger(t)[i])
                /\ OutcomeOf(r) = MsgOverlap

-----------------------------------------------------------------------------
(* C5 *)

\* The interval r asks for meets no stored entry of its aircraft except at
\* an endpoint, and meets at least one there.
TouchesOnly(r) ==
    LET rows == Ledger(NormalizeTail(r.tail))
        s == StartOf(r.date_str, r.takeoff)
        e == EndOf(r.date_str, r.takeoff, r.landing)
    IN  /\ \A i \in 1..Len(rows) : e <= RowStart(rows[i]) \/ s >= RowEnd(rows[i])
        /\ \E i \in 1..Len(rows) : e = RowStart(rows[i]) \/ s = RowEnd(rows[i])

\* The row of request r is the last entry of its aircraft's ledger in fs.
AppendedLast(fs, r) ==
    LET t == NormalizeTail(r.tail)
        n == Len(fs[t].rows)
    IN  /\ n = Len(Ledger(t)) + 1
        /\ SubSeq(fs[t].rows, 1, n - 1) = Loaded(files, t)
        /\ fs[t].rows[n].Date = r.date_str
        /\ fs[t].rows[n].TakeoffTime = r.takeoff
        /\ fs[t].rows[n].LandingTime = r.landing

\* C5: a well-formed request whose interval only touches stored entries at an
\* endpoint (its start is an entry's end, or its end an entry's start) and
\* intersects none otherwise is accepted and appended.
C5_TouchingAccepted ==
    \A r \in WellFormedRequests :
        TouchesOnly(r) =>
            /\ OutcomeOf(r) = MsgAdded
            /\ AppendedLast(StoredBy(r), r)

\* The call that just ran was accepted and stored an entry that starts where
\* the entry before it ends, both of non-zero length.
C5_Witness ==
    /\ last.op = "add" /\ last.ok
    /\ \E t \in Tails :
          /\ Len(Ledger(t)) = 2
          /\ RowStart(Ledger(t)[2]) = RowEnd(Ledger(t)[1])
          /\ RowStart(Ledger(t)[1]) < RowEnd(Ledger(t)[1])
          /\ RowStart(Ledger(t)[2]) < RowEnd(Ledger(t)[2])

-----------------------------------------------------------------------------
(* C6 *)

Abs(x) == IF x < 0 THEN -x ELSE x

\* h hundredths is m minutes in hours, rounded to 2 decimals:
\* |m/60 - h/100| <= 1/200.
IsRounded(m, h) == Abs(10 * m - 6 * h) <= 3

\* C6: for the date and clock times of every entry a call has stored, the
\* end of the interval is the landing instant plus exactly 24 hours if that
\* instant is strictly earlier than the takeoff instant, and the landing
\* instant otherwise; the duration is (end - start) in hours rounded to 2
\* decimals (23:30 to 00:15 is 0.75 and ends on the next day); and the
\* overlap check builds the interval of a request and of a stored entry by
\* the same rule as the duration.
C6_RolloverAndDuration ==
    \A t \in Tails : \A i \in 1..Len(Ledger(t)) :
        LET row == Ledger(t)[i]
            s == RowStart(row)
            e == RowEnd(row)
        IN  /\ ToInstant(DurationEnd(row.Date, row.TakeoffTime, row.LandingTime)) = e
            /\ ToInstant(NewStart(row.Date, row.TakeoffTime)) = s
            /\ ToInstant(NewEnd(row.Date, row.TakeoffTime, row.LandingTime)) = e
            /\ ToInstant(ExistingStart(row)) = s
            /\ ToInstant(ExistingEnd(row)) = e
            /\ IsRounded(e - s, row.FlightDuration)
            /\ IsRounded(e - s,
                     calc_duration_hours(row.Date, row.TakeoffTime, row.LandingTime))
            /\ (row.Date = Day1 /\ row.TakeoffTime = <<23, 30>>
                  /\ row.LandingTime = <<0, 15>>) =>
                  /\ row.FlightDuration = 75
                  /\ ExistingEnd(row).day = Ordinal(Day2)

\* The flight of 2024-01-01 from 23:30 to 00:15 is stored.
C6_Witness ==
    \E t \in Tails : \E i \in 1..Len(Ledger(t)) :
        /\ Ledger(t)[i].Date = Day1
        /\ Ledger(t)[i].TakeoffTime = <<23, 30>>
        /\ Ledger(t)[i].LandingTime = <<0, 15>>

-----------------------------------------------------------------------------
(* C7 *)

\* C7 as stated: the interval of every stored entry satisfies end > start,
\* strictly, after the rollover.
C7_StrictlyPositive ==
    \A t \in Tails : \A i \in 1..Len(Ledger(t)) :
        Before(ExistingStart(Ledger(t)[i]), ExistingEnd(Ledger(t)[i]))

\* C7 amended: the interval of every stored entry, as parsed when the entry
\* was recorded and as rebuilt by the overlap scan, satisfies end >= start
\* after the rollover, with end = start exactly when takeoff and landing are
\* the same clock time.
C7_NonNegative ==
    \A t \in Tails : \A i \in 1..Len(Ledger(t)) :
        LET row == Ledger(t)[i]
            s == parse_datetime(row.Date, row.TakeoffTime)
            e == DurationEnd(row.Date, row.TakeoffTime, row.LandingTime)
            same == row.TakeoffTime = row.LandingTime
        IN  /\ ~Before(e, s)
            /\ (e = s) <=> same
            /\ ~Before(ExistingEnd(row), ExistingStart(row))
            /\ (ExistingEnd(row) = ExistingStart(row)) <=> same
            /\ row.FlightDuration >= 0

\* An entry whose takeoff and landing are the same clock time is stored, and
\* so is one that landed after midnight.
C7_Witness ==
    \E t \in Tails :
        /\ \E i \in 1..Len(Ledger(t)) :
              Ledger(t)[i].TakeoffTime = Ledger(t)[i].LandingTime
        /\ \E i \in 1..Len(Ledger(t)) :
              InstantOf(Ledger(t)[i].Date, Ledger(t)[i].LandingTime) <
                  InstantOf(Ledger(t)[i].Date, Ledger(t)[i].TakeoffTime)

-----------------------------------------------------------------------------
(* C8 *)

\* rows is old followed by exactly one entry.
OneAppended(old, rows) ==
    Len(rows) = Len(old) + 1 /\ SubSeq(rows, 1, Len(old)) = old

\* C8: the ledger is append-only: a successful add_flight_record leaves the
\* aircraft's stored entries as they were, followed by exactly one new entry,
\* and no handler (add, view history, plot, export) removes, reorders or
\* changes a field of an entry already stored.
C8_AppendOnly ==
    [][\A t \in Tails :
          \/ Ledger(t)' = Ledger(t)
          \/ /\ last'.op = "add" /\ last'.ok
             /\ OneAppended(Ledger(t), Ledger(t)')]_vars

\* What holds of C8: the entries a load returns are append-only, and so are
\* the stored entries of an aircraft whose tail number read_csv keeps.
C8_AppendOnlyLoaded ==
    [][\A t \in Tails :
          /\ \/ Loaded(files', t) = Loaded(files, t)
             \/ /\ last'.op = "add" /\ last'.ok
                /\ OneAppended(Loaded(files, t), Loaded(files', t))
          /\ t \notin NaValues =>
                \/ Ledger(t)' = Ledger(t)
                \/ /\ last'.op = "add" /\ last'.ok
                   /\ OneAppended(Ledger(t), Ledger(t)')]_vars

-----------------------------------------------------------------------------
(* C9 *)

TailOf(p) == NormalizeTail(req[p].tail)

\* Both processes are back from a call on the same aircraft, both calls
\* reported success, and both had read the same ledger at line 128.
BothAddedOnOneSnapshot(p, q) ==
    /\ p # q
    /\ pc[p] = "idle" /\ pc[q] = "idle"
    /\ ret[p].ok /\ ret[q].ok
    /\ TailOf(p) = TailOf(q)
    /\ local_df[p] = local_df[q]

\* C9: two unserialized calls for one aircraft whose reads and whole-ledger
\* writes interleave both report success while the stored ledger holds only
\* one of the two entries, the one written last, with totals that omit the
\* other: whenever both have read the same ledger, the file is that ledger
\* followed by a single entry whose totals count that entry alone.
C9_LostUpdate ==
    \A p, q \in Procs :
        BothAddedOnOneSnapshot(p, q) =>
            LET rows == Ledger(TailOf(p))
                n == Len(rows)
            IN  /\ OneAppended(local_df[p], rows)
                /\ \E w \in {p, q} :
                      /\ rows[n].TakeoffTime = req[w].takeoff
                      /\ rows[n].LandingTime = req[w].landing
                      /\ rows[n].TotalLandingsAfterFlight =
                            PrevLandings(local_df[p]) + req[w].landings_this

\* Both calls reported success for overlapping intervals of one aircraft and
\* the ledger holds one entry.
C9_Witness ==
    \E p, q \in Procs :
        /\ BothAddedOnOneSnapshot(p, q)
        /\ Overlapping(StartOf(req[p].date_str, req[p].takeoff),
                       EndOf(req[p].date_str, req[p].takeoff, req[p].landing),
                       StartOf(req[q].date_str, req[q].takeoff),
                       EndOf(req[q].date_str, req[q].takeoff, req[q].landing))
        /\ req[p].landings_this # req[q].landings_this
        /\ Len(Ledger(TailOf(p))) = 1

-----------------------------------------------------------------------------
(* C10 *)

\* No call is in progress on the ledger of t.
Quiet(t) == \A p \in Procs : pc[p] = "idle" \/ TailOf(p) # t

\* C10: calls on aircraft whose normalized tails differ are independent: a
\* step of a call changes no file but that of the call's own aircraft, and a
\* ledger that only one process has named holds, whenever no call on it is
\* in progress and however the steps of the other process were interleaved,
\* what the calls leave when run one after another.
C10_Independent ==
    /\ [](\A t \in Tails :
            (Quiet(t) /\ Cardinality({p \in Procs : t \in touched[p]}) <= 1) =>
                files[t] = serial[t])
    /\ [][\A t \in Tails :
            files'[t] # files[t] =>
                \E p \in Procs : pc'[p] # pc[p] /\ TailOf(p) = t]_vars

\* Two calls on different aircraft are between opening their files and
\* flushing them at the same moment.
C10_Witness ==
    /\ pc[1] = "flush" /\ pc[2] = "flush"
    /\ TailOf(1) # TailOf(2)

-----------------------------------------------------------------------------
(* C11 *)

\* The row lacks cells: the write of its line stopped short.
TornRow(row) == DOMAIN row # { Columns[i] : i \in 1..Len(Columns) }

\* The file of t exists and is not a table add_flight_record wrote in full.
Malformed(t) ==
    \/ files[t].status = "corrupt"
    \/ /\ files[t].status = "ok"
       /\ \E i \in 1..Len(Ledger(t)) : TornRow(Ledger(t)[i])

\* On store fs the ledger of r's aircraft is the single entry of r, with
\* the totals of a first entry.
HoldsOnly(fs, r) ==
    LET t == NormalizeTail(r.tail)
        rows == fs[t].rows
    IN  /\ fs[t].status = "ok"
        /\ Len(rows) = 1
        /\ ~TornRow(rows[1])
        /\ rows[1].Date = r.date_str
        /\ rows[1].TakeoffTime = r.takeoff
        /\ rows[1].LandingTime = r.landing
        /\ rows[1].LandingsThisFlight = r.landings_this
        /\ rows[1].TotalLandingsAfterFlight = r.landings_this
        /\ rows[1].TotalHoursAfterFlight = rows[1].FlightDuration

\* The well-formed requests of the damaged-store runs.
WellFormedStoreRequests == { r \in StoreRequests : WellFormed(r) }

\* C11: when the file of an aircraft exists but is unreadable or malformed,
\* also after a crash in the middle of a write, the load returns the empty
\* sequence and the next call proceeds as on an empty ledger: it is accepted
\* and its write leaves exactly the one new entry, with totals counted from 0.
C11_MalformedAsEmpty ==
    \A t \in Tails :
        Malformed(t) =>
            /\ Loaded(files, t) = <<>>
            /\ \A r \in WellFormedStoreRequests :
                  NormalizeTail(r.tail) = t =>
                      /\ OutcomeOf(r) = MsgAdded
                      /\ HoldsOnly(StoredBy(r), r)

\* What holds of C11: a file read_csv raises on is loaded as the empty
\* sequence and the next call stores its entry alone.
C11_UnreadableAsEmpty ==
    \A t \in Tails :
        files[t].status = "corrupt" =>
            /\ Loaded(files, t) = <<>>
            /\ \A r \in WellFormedStoreRequests :
                  NormalizeTail(r.tail) = t =>
                      /\ OutcomeOf(r) = MsgAdded
                      /\ HoldsOnly(StoredBy(r), r)

-----------------------------------------------------------------------------
(* C12 *)

\* C12: the ledger of an aircraft that was never written loads as the empty
\* sequence, every well-formed call on it is accepted, and the entry the
\* first accepted call stores carries totals equal to its own duration and
\* its own landings.
C12_FirstRecord ==
    /\ [](\A t \in Tails :
            files[t].status = "missing" =>
                /\ Loaded(files, t) = <<>>
                /\ \A r \in WellFormedRequests :
                      NormalizeTail(r.tail) = t =>
                          /\ OutcomeOf(r) = MsgAdded
                          /\ HoldsOnly(StoredBy(r), r))
    /\ [][\A t \in Tails :
            (files[t].status = "missing" /\ files'[t] # files[t]) =>
                /\ last'.op = "add" /\ last'.ok
                /\ Len(Ledger(t)') = 1
                /\ Ledger(t)'[1].TotalHoursAfterFlight = Ledger(t)'[1].FlightDuration
                /\ Ledger(t)'[1].TotalLandingsAfterFlight =
                      Ledger(t)'[1].LandingsThisFlight]_vars

\* The first call on an aircraft was just accepted, for a flight of non-zero
\* length with 3 landings, while another aircraft has no file yet.
C12_Witness ==
    /\ last.op = "add" /\ last.ok
    /\ \E t, u \in Tails :
          /\ Len(Ledger(t)) = 1
          /\ Ledger(t)[1].LandingsThisFlight = 3
          /\ Ledger(t)[1].FlightDuration > 0
          /\ files[u].status = "missing"

-----------------------------------------------------------------------------
(* C13 *)

\* Spellings of one tail number: they differ in letter case and surrounding
\* whitespace only.
SpellingsOfN1 == { TailN1, TailN1Padded }

\* The directory both spellings name.
LedgerN1 == <<"N", "1">>

\* Request r with its tail number spelled s.
Respelled(r, s) == [r EXCEPT !.tail = s]

\* The requests tried under both spellings.
SpellingProbes ==
    { r \in MoreRequests \cup InvalidRequests : r.tail \in SpellingsOfN1 }

\* C13: calls whose tail numbers differ only in letter case or surrounding
\* whitespace read and write one ledger: on every reachable store a request
\* has the same outcome and leaves the same store under either spelling, so
\* an interval stored under one spelling rejects an overlapping request
\* under the other, and an accepted one continues the stored totals.
C13_OneLedgerPerAircraft ==
    \A r \in SpellingProbes : \A s \in SpellingsOfN1 \ { r.tail } :
            LET other == Respelled(r, s)
            IN  /\ OutcomeOf(other) = OutcomeOf(r)
                /\ StoredBy(other) = StoredBy(r)
                /\ (CanParse(r.date_str, r.takeoff) /\ CanParse(r.date_str, r.landing)
                      /\ \E i \in 1..Len(Ledger(LedgerN1)) :
                            Overlapping(StartOf(r.date_str, r.takeoff),
                                        EndOf(r.date_str, r.takeoff, r.landing),
                                        RowStart(Ledger(LedgerN1)[i]),
                                        RowEnd(Ledger(LedgerN1)[i])))
                      => OutcomeOf(other) = MsgOverlap

\* The ledger holds the entry that only the spelling "n1" asks for,
\* followed by the entry that only the spelling "N1 " asks for, with the
\* landings of both in the total, and the request that spells the tail
\* "N1 " for the interval stored under "n1" is rejected for overlap.
C13_Witness ==
    /\ last.op = "add" /\ last.ok
    /\ Len(Ledger(LedgerN1)) = 2
    /\ Ledger(LedgerN1)[1].Date = Day1
    /\ Ledger(LedgerN1)[1].TakeoffTime = <<0, 15>>
    /\ Ledger(LedgerN1)[1].LandingsThisFlight = 3
    /\ Ledger(LedgerN1)[2].Date = Day2
    /\ Ledger(LedgerN1)[2].TakeoffTime = <<0, 0>>
    /\ Ledger(LedgerN1)[2].LandingTime = <<12, 0>>
    /\ Ledger(LedgerN1)[2].LandingsThisFlight = 2
    /\ Ledger(LedgerN1)[2].TotalLandingsAfterFlight = 5
    /\ OutcomeOf(Request(Day1, TailN1Padded, <<0, 15>>, <<12, 0>>, 1)) = MsgOverlap

-----------------------------------------------------------------------------
(* C14 *)

\* C14: every stored entry has a landings count of at least 1, so the
\* landings total strictly increases from each entry to the next.
C14_PositiveCounts ==
    \A t \in Tails : \A i \in 1..Len(Ledger(t)) :
        /\ Ledger(t)[i].LandingsThisFlight >= 1
        /\ Ledger(t)[i].TotalLandingsAfterFlight > PrevTotalLandings(Ledger(t), i)

-----------------------------------------------------------------------------
(* C15 *)

\* The row has the cells of an interval and they parse.
ParseableRow(row) ==
    /\ TimeCells \subseteq DOMAIN row
    /\ CanParse(row.Date, row.TakeoffTime)
    /\ CanParse(row.Date, row.LandingTime)

\* Some stored entry of r's aircraft that parses overlaps the interval r
\* asks for.
OverlapsParseable(r) ==
    LET rows == Ledger(NormalizeTail(r.tail))
        s == StartOf(r.date_str, r.takeoff)
        e == EndOf(r.date_str, r.takeoff, r.landing)
    IN  \E i \in 1..Len(rows) :
            /\ ParseableRow(rows[i])
            /\ Overlapping(s, e, RowStart(rows[i]), RowEnd(rows[i]))

Rejections == { MsgTailRequired, MsgParseError, MsgOverlap }

\* C15: when the file of the aircraft cannot be written, a call is never
\* reported as added and the store stays as it was; a call that passed the
\* tail, parse and overlap checks ends in an outcome that is none of the
\* three rejections; and a call reports success only in a step that wrote
\* its row to a writable file.
C15_WriteFailureSurfaces ==
    /\ [](\A r \in WellFormedStoreRequests :
            files[NormalizeTail(r.tail)].status = "locked" =>
                /\ OutcomeOf(r) # MsgAdded
                /\ StoredBy(r) = files
                /\ ~OverlapsParseable(r) => OutcomeOf(r) \notin Rejections)
    /\ [][(last'.op = "add" /\ last'.ok) =>
            \E t \in Tails :
                /\ files[t].status # "locked"
                /\ files'[t].status = "ok"
                /\ OneAppended(Loaded(files, t), Ledger(t)')]_vars

\* The call that just ran ended in the OSError of the write, on a file that
\* holds an entry and cannot be written.
C15_Witness ==
    /\ last.op = "add" /\ last.msg = ExcOSError /\ ~last.ok
    /\ \E t \in Tails : files[t].status = "locked" /\ Len(Ledger(t)) = 1

-----------------------------------------------------------------------------
(* C16 *)

\* C16: what write_flights_df wrote, read_flights_df loads: as many entries,
\* in the order of insertion, with the same field values, so each call sees
\* every entry that the earlier accepted calls wrote.
C16_RoundTrip ==
    \A t \in Tails :
        /\ Len(Loaded(files, t)) = Len(Ledger(t))
        /\ \A i \in 1..Len(Ledger(t)) : Loaded(files, t)[i] = Ledger(t)[i]

\* What holds of C16: the load returns as many entries as were written, in
\* order, and every field but the Tail Number with the value written; the
\* Tail Number too when read_csv does not take it for a missing value.
C16_RoundTripButTail ==
    \A t \in Tails :
        /\ Len(Loaded(files, t)) = Len(Ledger(t))
        /\ \A i \in 1..Len(Ledger(t)) :
              /\ [Loaded(files, t)[i] EXCEPT !.TailNumber = NaN] =
                    [Ledger(t)[i] EXCEPT !.TailNumber = NaN]
              /\ Ledger(t)[i].TailNumber \notin NaValues =>
                    Loaded(files, t)[i] = Ledger(t)[i]

-----------------------------------------------------------------------------
(* C17 *)

\* The tail number is empty once trimmed.
Blank(tail) == \A i \in 1..Len(tail) : tail[i] = " "

Parses(r) == CanParse(r.date_str, r.takeoff) /\ CanParse(r.date_str, r.landing)

\* C17: the checks run in the order tail number, date and times, overlap,
\* and the first that fails decides: a blank tail gives the tail-number
\* message even when the date or a time does not parse; a date or time that
\* does not parse gives the parse-error message whatever the ledger holds,
\* be it an overlapping entry or a file on which the call would otherwise
\* fail; and the overlap message is given only to requests that passed both
\* checks and overlap a stored entry.
C17_CheckOrder ==
    \A r \in Requests :
        /\ Blank(r.tail) => OutcomeOf(r) = MsgTailRequired
        /\ (~Blank(r.tail) /\ ~Parses(r)) => OutcomeOf(r) = MsgParseError
        /\ OutcomeOf(r) = MsgOverlap =>
              ~Blank(r.tail) /\ Parses(r) /\ OverlapsParseable(r)

\* The call that just ran was given a time that does not parse and returned
\* the parse-error message, on a ledger whose last line is torn, where a
\* call that reads the ledger for its totals fails.
C17_Witness ==
    /\ last.op = "add" /\ last.msg = MsgParseError
    /\ files[LedgerN1].status = "ok"
    /\ Len(Ledger(LedgerN1)) = 1
    /\ TornRow(Ledger(LedgerN1)[1])
    /\ OutcomeOf(Request(Day1, TailN1Padded, <<12, 0>>, <<23, 30>>, 2)) = ExcValueError
    /\ OutcomeOf(Request(BadDate, BlankTail, <<0, 0>>, <<12, 0>>, 1)) = MsgTailRequired

-----------------------------------------------------------------------------
(* C18 *)

\* Row new_row, written after the entries old, carries its own values and
\* the totals that include them.
WithTotals(old, new_row) ==
    /\ ~TornRow(new_row)
    /\ new_row.TotalHoursAfterFlight =
          (IF old = <<>> THEN 0 ELSE old[Len(old)].TotalHoursAfterFlight)
              + new_row.FlightDuration
    /\ new_row.TotalLandingsAfterFlight =
          (IF old = <<>> THEN 0 ELSE old[Len(old)].TotalLandingsAfterFlight)
              + new_row.LandingsThisFlight

\* C18: a call writes the store at most once: an accepted call replaces the
\* file of one aircraft by the ledger it loaded followed by the new entry,
\* which carries its totals in that same snapshot, and changes no other
\* file; a rejected call writes nothing; so between calls every stored
\* entry is complete and carries the totals that include it.
C18_SingleWrite ==
    /\ [][last'.op = "add" =>
            IF last'.ok
            THEN \E t \in Tails :
                    /\ \A u \in Tails \ {t} : files'[u] = files[u]
                    /\ files'[t].status = "ok"
                    /\ OneAppended(Loaded(files, t), Ledger(t)')
                    /\ WithTotals(Loaded(files, t), Ledger(t)'[Len(Ledger(t)')])
            ELSE files' = files]_vars
    /\ [](\A t \in Tails : \A i \in 1..Len(Ledger(t)) :
            WithTotals(SubSeq(Ledger(t), 1, i - 1), Ledger(t)[i]))

\* The call that just ran was accepted on a ledger that held an entry: the
\* file holds both, the second with totals that differ from its own values.
C18_Witness ==
    /\ last.op = "add" /\ last.ok
    /\ \E t \in Tails :
          /\ Len(Ledger(t)) = 2
          /\ Ledger(t)[2].TotalLandingsAfterFlight > Ledger(t)[2].LandingsThisFlight
          /\ Ledger(t)[2].TotalHoursAfterFlight > Ledger(t)[2].FlightDuration
          /\ Ledger(t)[2].FlightDuration > 0

-----------------------------------------------------------------------------
(* C19 *)

\* C19: in the overlap scan a stored entry whose date or times do not parse
\* is skipped and the scan goes on: a well-formed request is rejected for
\* overlap exactly when some stored entry that parses overlaps it, wherever
\* the entries that do not parse stand in the ledger, and never when none of
\* the stored entries parses.
C19_UnparseableSkipped ==
    \A r \in WellFormedStoreRequests :
        /\ OutcomeOf(r) = MsgOverlap <=> OverlapsParseable(r)
        /\ (\A i \in 1..Len(Ledger(NormalizeTail(r.tail))) :
                ~ParseableRow(Ledger(NormalizeTail(r.tail))[i]))
              => OutcomeOf(r) # MsgOverlap

\* The ledger holds an entry whose date does not parse followed by one that
\* parses, and the call that just ran was rejected for overlapping the
\* second.
C19_Witness ==
    /\ last.op = "add" /\ last.msg = MsgOverlap
    /\ \E t \in Tails :
          /\ Len(Ledger(t)) = 2
          /\ ~ParseableRow(Ledger(t)[1])
          /\ ParseableRow(Ledger(t)[2])

-----------------------------------------------------------------------------
(* C20 *)

\* C20: the interval of every stored entry is at least 0 and strictly less
\* than 24 hours long, its duration lies between 0.00 and 23.98 hours, and
\* the total hours never decrease from one entry to the next.
C20_UnderOneDay ==
    \A t \in Tails : \A i \in 1..Len(Ledger(t)) :
        LET row == Ledger(t)[i]
            length == MinutesBetween(parse_datetime(row.Date, row.TakeoffTime),
                                     DurationEnd(row.Date, row.TakeoffTime,
                                                 row.LandingTime))
        IN  /\ 0 <= length /\ length < MinutesPerDay
            /\ RowEnd(row) - RowStart(row) = length
            /\ 0 <= row.FlightDuration /\ row.FlightDuration <= 2398
            /\ row.TotalHoursAfterFlight >= PrevTotalHours(Ledger(t), i)

\* The ledger holds an entry of length 0 and an entry of 23 hours and 59
\* minutes, stored as 23.98 hours.
C20_Witness ==
    \E t \in Tails :
        /\ Len(Ledger(t)) = 2
        /\ \E i, j \in 1..2 :
              /\ Ledger(t)[i].FlightDuration = 0
              /\ Ledger(t)[j].FlightDuration = 2398
              /\ RowEnd(Ledger(t)[j]) - RowStart(Ledger(t)[j]) = MinutesPerDay - 1

====
